---- MODULE Spec2Model ----
(***************************************************************************)
(* Model of soil_grids/soil_grids.py: the SoilGrids class.                 *)
(*                                                                         *)
(* Paths are sequences of components (an absolute path starts with "/"),   *)
(* a URL is the sequence of its "/"-separated segments.  The file system   *)
(* is a function from the paths of the existing files to their content.    *)
(* Every file-system operation of download_file, FC and WP is one step of  *)
(* a caller, so that two callers interleave exactly where two threads or   *)
(* processes sharing source_directory can.                                 *)
(***************************************************************************)
EXTENDS Integers, Sequences, FiniteSets, TLC

\* ------------------------------------------------------------- constants

DEFAULT_RESAMPLING == "cubic"
DEFAULT_WORKING_DIRECTORY == <<".">>
DEFAULT_DOWNLOAD_DIRECTORY == <<"SoilGrids_download">>

FC_URL ==
    <<"https:", "", "zenodo.org", "record", "2784001", "files",
      "sol_watercontent.33kPa_usda.4b1c_m_250m_b0..0cm_1950..2017_v0.1.tif">>
WP_URL ==
    <<"https:", "", "zenodo.org", "record", "2784001", "files",
      "sol_watercontent.1500kPa_usda.3c2a1a_m_250m_b0..0cm_1950..2017_v0.1.tif">>

\* the value a Python argument has when it is None
None == "None"
NonePath == <<"None">>

\* the process's environment: current directory and home directory
Cwd == <<"/", "home", "user", "run">>
Home == <<"/", "home", "user">>

\* the raw values of a pixel of the uint8 grid
RawBytes == 0 .. 255
\* the raw values read in the runs that are about the cache, not the recode
RawSamples == {0, 100, 180, 255}

\* the cap on a call's count of transfer invocations (the code as it is never
\* comes near it: a call runs line 143 at most once)
MaxTransfers == 2

\* ------------------------------------------------------------ os.path

isabs(p) == Len(p) > 0 /\ p[1] = "/"

\* os.path.join of two paths
join(a, b) == IF isabs(b) THEN b ELSE a \o b

\* os.path.expanduser: a leading "~" is the home directory
expanduser(p) == IF Len(p) > 0 /\ p[1] = "~" THEN Home \o Tail(p) ELSE p

\* os.path.normpath, for paths without "..": the "." components are dropped
RECURSIVE normpath(_)
normpath(p) ==
    IF p = <<>> THEN <<>>
    ELSE IF Head(p) = "." THEN normpath(Tail(p))
    ELSE <<Head(p)>> \o normpath(Tail(p))

\* os.path.abspath
abspath(p) == normpath(IF isabs(p) THEN p ELSE join(Cwd, p))

\* os.path.dirname
dirname(p) == SubSeq(p, 1, Len(p) - 1)

\* posixpath.basename of a URL: what follows its last "/"
basename(url) == <<url[Len(url)]>>

\* f"{filename}.download"
partial_suffix(filename) ==
    [filename EXCEPT ![Len(filename)] = @ \o ".download"]

\* ------------------------------------------------------------ __init__

\* SoilGrids.__init__: the instance's attributes from the constructor's
\* arguments
SoilGrids(working_directory, source_directory, resampling) ==
    LET wd == IF working_directory = NonePath
              THEN abspath(expanduser(DEFAULT_WORKING_DIRECTORY))
              ELSE working_directory
        sd == IF source_directory = NonePath
              THEN join(wd, DEFAULT_DOWNLOAD_DIRECTORY)
              ELSE source_directory
    IN  [working_directory |-> abspath(expanduser(wd)),
         source_directory  |-> abspath(expanduser(sd)),
         resampling        |-> resampling]

\* the constructor's arguments of the runs
WorkingDirectoryArgs == {NonePath, <<"/", "tmp", "wd">>, <<"~", "soil">>}
SourceDirectoryArgs == {NonePath, <<"/", "mnt", "SoilGrids">>}
ResamplingArgs == {DEFAULT_RESAMPLING, "nearest"}

\* FC_filename, WP_filename (properties)
\* (variant: the file name joined to working_directory)
FC_filename_in_working_directory(obj) == join(obj.working_directory, basename(FC_URL))
FC_filename(obj) == join(obj.source_directory, basename(FC_URL))
WP_filename(obj) == join(obj.source_directory, basename(WP_URL))

\* ------------------------------------------------------------ the recode

\* a raster value: not-a-number, or the fraction num/den
NaN == [nan |-> TRUE, num |-> 0, den |-> 1]
Num(n) == [nan |-> FALSE, num |-> n, den |-> 1]

Sentinel == 255
Scale == 100
ClipLo == 0
ClipHi == 1

\* rt.where(image == 255, np.nan, image)
where_sentinel(v) == IF v = Sentinel THEN NaN ELSE Num(v)

\* image / 100: not-a-number stays not-a-number
divide(x, k) == IF x.nan THEN x ELSE [x EXCEPT !.den = @ * k]

\* rt.clip(image, lo, hi): not-a-number stays not-a-number
\* (variant: the upper limit is not applied)
clip_unclamped(x, lo, hi) ==
    IF x.nan THEN x
    ELSE IF x.num < lo * x.den THEN Num(lo)
    ELSE x
clip(x, lo, hi) ==
    IF x.nan THEN x
    ELSE IF x.num < lo * x.den THEN Num(lo)
    ELSE IF x.num > hi * x.den THEN Num(hi)
    ELSE x

\* lines 188-190 of FC
FC_recode(v) == clip(divide(where_sentinel(v), Scale), ClipLo, ClipHi)

\* lines 227-229 of WP
WP_recode(v) == clip(divide(where_sentinel(v), Scale), ClipLo, ClipHi)

\* ------------------------------------------------------------ the state

Callers == {"A", "B"}
\* the caller of single-threaded use
MainCaller == "A"
Products == {"FC", "WP"}

VARIABLES
    self,     \* the SoilGrids instance: working_directory, source_directory, resampling
    fs,       \* the files that exist: path -> content ("good" or "corrupt")
    dirs,     \* the directories that exist
    pc,       \* each caller's position: "idle", or the line it is about to execute
    frame,    \* each caller's arguments and local variables
    obs,      \* what happened in each caller's current (or last) call: the final
              \* path's content when it was made (seen), whether it follows a
              \* failed fetch (retry), the transfers it invoked, whether its
              \* transfer wrote output (produced), whether a file was at the
              \* temporary path when the transfer returned (out), the exit
              \* status, and how it opened the raster
    result,   \* what each caller's last call returned or raised
    last      \* per product, how the last completed call for it ended

vars == <<self, fs, dirs, pc, frame, obs, result, last>>

exists(p) == p \in DOMAIN fs

Content(p) == IF exists(p) THEN fs[p] ELSE "absent"

\* the file system with `content` written at path p
write(f, p, content) ==
    [q \in (DOMAIN f) \cup {p} |-> IF q = p THEN content ELSE f[q]]

\* shutil.move(src, dst) of an existing file within one directory: os.rename,
\* which replaces dst
\* (variant: src is copied, not renamed)
move_copy(f, src, dst) ==
    [q \in (DOMAIN f) \cup {dst} |-> IF q = dst THEN f[src] ELSE f[q]]
move(f, src, dst) ==
    [q \in ((DOMAIN f) \ {src}) \cup {dst} |-> IF q = dst THEN f[src] ELSE f[q]]

\* the product a URL is the grid of
ProductOf(URL) == IF URL = FC_URL THEN "FC" ELSE "WP"
URLOf(p) == IF p = "FC" THEN FC_URL ELSE WP_URL
FilenameOf(obj, p) == IF p = "FC" THEN FC_filename(obj) ELSE WP_filename(obj)

NoFrame ==
    [method |-> "none", geometry |-> None, arg_resampling |-> None,
     resampling |-> None, URL |-> <<>>, filename |-> <<>>,
     partial_filename |-> <<>>]

NoObs ==
    [seen |-> "absent", retry |-> FALSE, transfers |-> 0, produced |-> FALSE,
     out |-> "none", rc |-> 0, opened |-> FALSE, open_resampling |-> None,
     open_geometry |-> None]

NoResult == [kind |-> "none", path |-> <<>>, url |-> <<>>, raw |-> 0, value |-> NaN]

\* what a call observes when it is made: the content of the final path, and
\* whether the last call for the product failed to fetch it
ObsAtCall(URL, filename) ==
    [NoObs EXCEPT !.seen = Content(filename),
                  !.retry = (last[ProductOf(URL)] = "IOError")]

\* a call ends: with a value returned or an exception raised
Finish(c, r) ==
    /\ pc' = [pc EXCEPT ![c] = "idle"]
    /\ result' = [result EXCEPT ![c] = r]
    /\ last' = [last EXCEPT ![ProductOf(frame[c].URL)] = r.kind]

Goto(c, label) ==
    /\ pc' = [pc EXCEPT ![c] = label]
    /\ UNCHANGED <<result, last>>

\* ------------------------------------------------------------ Init

\* the cache directory as an earlier process left it: each grid absent, or
\* present (complete or not); no download in flight
InitFiles(obj, names) ==
    /\ \E present \in SUBSET names :
         /\ fs \in [present -> {"good", "corrupt"}]
         /\ dirs \in IF present = {}
                     THEN {{}, {obj.source_directory}}
                     ELSE {{obj.source_directory}}

InitCallers ==
    /\ pc = [c \in Callers |-> "idle"]
    /\ frame = [c \in Callers |-> NoFrame]
    /\ obs = [c \in Callers |-> NoObs]
    /\ result = [c \in Callers |-> NoResult]
    /\ last = [p \in Products |-> "none"]

Init ==
    /\ \E w \in WorkingDirectoryArgs, s \in SourceDirectoryArgs, r \in ResamplingArgs :
         self = SoilGrids(w, s, r)
    /\ InitFiles(self, {FC_filename(self), WP_filename(self)})
    /\ InitCallers

\* ------------------------------------------------------------ download_file

\* a direct call of download_file(URL, filename)
download_file(c, URL, filename) ==
    /\ pc[c] = "idle"
    /\ frame' = [frame EXCEPT ![c] =
                   [NoFrame EXCEPT !.method = "download_file",
                                   !.URL = URL, !.filename = filename]]
    /\ obs' = [obs EXCEPT ![c] = ObsAtCall(URL, filename)]
    /\ pc' = [pc EXCEPT ![c] = "dl_133"]
    /\ result' = [result EXCEPT ![c] = NoResult]
    /\ UNCHANGED <<self, fs, dirs, last>>

\* download_file returns filename: to FC or WP, or to the direct caller
dl_return(c) ==
    IF frame[c].method = "FC" THEN Goto(c, "FC_182")
    ELSE IF frame[c].method = "WP" THEN Goto(c, "WP_221")
    ELSE Finish(c, [NoResult EXCEPT !.kind = "path", !.path = frame[c].filename])

\* lines 133-135: if exists(filename): return filename
\* (variant: the existing file is fetched again)
dl_exists_refetching(c) ==
    /\ pc[c] = "dl_133"
    /\ Goto(c, "dl_139")
    /\ UNCHANGED <<self, fs, dirs, frame, obs>>
\* (variant: a caller waits while another fetches the same file)
dl_exists_locked(c) ==
    /\ pc[c] = "dl_133"
    /\ \A d \in Callers \ {c} :
          ~ (/\ pc[d] \in {"dl_139", "dl_143", "dl_148", "dl_151"}
             /\ frame[d].filename = frame[c].filename)
    /\ IF exists(frame[c].filename)
       THEN dl_return(c)
       ELSE Goto(c, "dl_139")
    /\ UNCHANGED <<self, fs, dirs, frame, obs>>
dl_exists(c) ==
    /\ pc[c] = "dl_133"
    /\ IF exists(frame[c].filename)
       THEN dl_return(c)
       ELSE Goto(c, "dl_139")
    /\ UNCHANGED <<self, fs, dirs, frame, obs>>

\* lines 137-140: makedirs(dirname(filename), exist_ok=True); partial_filename
dl_makedirs(c) ==
    /\ pc[c] = "dl_139"
    /\ dirs' = dirs \cup {dirname(frame[c].filename)}
    /\ frame' = [frame EXCEPT ![c].partial_filename = partial_suffix(frame[c].filename)]
    /\ Goto(c, "dl_143")
    /\ UNCHANGED <<self, fs, obs>>

\* lines 141-146: system('wget -c -O "{partial_filename}" "{URL}"').  The
\* transfer tool leaves no file, a complete file or an incomplete one, with
\* any exit status; a file already there stays (-c continues it); the exit
\* status is dropped.
dl_system(c, outcome, rc) ==
    /\ pc[c] = "dl_143"
    /\ obs[c].transfers < MaxTransfers
    /\ LET p == frame[c].partial_filename
           made == /\ dirname(p) \in dirs
                   /\ outcome # "nofile" \/ exists(p)
           content == IF outcome = "nofile" THEN Content(p) ELSE outcome
       IN  /\ fs' = IF made THEN write(fs, p, content) ELSE fs
           /\ obs' = [obs EXCEPT ![c].transfers = @ + 1,
                                 ![c].produced = (made /\ outcome # "nofile"),
                                 ![c].out = IF made THEN "file" ELSE "nofile",
                                 ![c].rc = rc]
    /\ Goto(c, "dl_148")
    /\ UNCHANGED <<self, dirs, frame>>

\* lines 148-149: if not exists(partial_filename): raise IOError(URL)
\* (variant: the transfer is retried within the call)
dl_verify_retrying(c) ==
    /\ pc[c] = "dl_148"
    /\ IF ~ exists(frame[c].partial_filename)
       THEN IF obs[c].transfers < MaxTransfers
            THEN Goto(c, "dl_143")
            ELSE Finish(c, [NoResult EXCEPT !.kind = "IOError", !.url = frame[c].URL])
       ELSE Goto(c, "dl_151")
    /\ UNCHANGED <<self, fs, dirs, frame, obs>>
\* (variant: a non-zero exit status is a failure too)
dl_verify_by_status(c) ==
    /\ pc[c] = "dl_148"
    /\ IF ~ exists(frame[c].partial_filename) \/ obs[c].rc # 0
       THEN Finish(c, [NoResult EXCEPT !.kind = "IOError", !.url = frame[c].URL])
       ELSE Goto(c, "dl_151")
    /\ UNCHANGED <<self, fs, dirs, frame, obs>>
\* (variant: the error does not carry the URL)
dl_verify_unnamed(c) ==
    /\ pc[c] = "dl_148"
    /\ IF ~ exists(frame[c].partial_filename)
       THEN Finish(c, [NoResult EXCEPT !.kind = "IOError"])
       ELSE Goto(c, "dl_151")
    /\ UNCHANGED <<self, fs, dirs, frame, obs>>
dl_verify(c) ==
    /\ pc[c] = "dl_148"
    /\ IF ~ exists(frame[c].partial_filename)
       THEN Finish(c, [NoResult EXCEPT !.kind = "IOError", !.url = frame[c].URL])
       ELSE Goto(c, "dl_151")
    /\ UNCHANGED <<self, fs, dirs, frame, obs>>

\* lines 151-153: move(partial_filename, filename); return filename.  move
\* raises FileNotFoundError when partial_filename is gone.
\* (variant: the temporary file is left behind)
dl_move_copying(c) ==
    /\ pc[c] = "dl_151"
    /\ IF exists(frame[c].partial_filename)
       THEN /\ fs' = move_copy(fs, frame[c].partial_filename, frame[c].filename)
            /\ dl_return(c)
       ELSE /\ fs' = fs
            /\ Finish(c, [NoResult EXCEPT !.kind = "FileNotFoundError",
                                          !.path = frame[c].partial_filename])
    /\ UNCHANGED <<self, dirs, frame, obs>>
dl_move(c) ==
    /\ pc[c] = "dl_151"
    /\ IF exists(frame[c].partial_filename)
       THEN /\ fs' = move(fs, frame[c].partial_filename, frame[c].filename)
            /\ dl_return(c)
       ELSE /\ fs' = fs
            /\ Finish(c, [NoResult EXCEPT !.kind = "FileNotFoundError",
                                          !.path = frame[c].partial_filename])
    /\ UNCHANGED <<self, dirs, frame, obs>>

\* ------------------------------------------------------------ FC and WP

\* lines 173-174 (FC), 212-213 (WP): if resampling is None: self.resampling
\* (variant: the argument is ignored)
resolve_resampling_default(resampling) == self.resampling
resolve_resampling(resampling) ==
    IF resampling = None THEN self.resampling ELSE resampling

\* a call of a grid method: lines 173-177 (FC), 212-216 (WP)
grid_call(c, method, URL, filename, geometry, resampling, label) ==
    /\ pc[c] = "idle"
    /\ frame' = [frame EXCEPT ![c] =
                   [NoFrame EXCEPT !.method = method,
                                   !.geometry = geometry,
                                   !.arg_resampling = resampling,
                                   !.resampling = resolve_resampling(resampling),
                                   !.URL = URL,
                                   !.filename = filename]]
    /\ obs' = [obs EXCEPT ![c] = ObsAtCall(URL, filename)]
    /\ pc' = [pc EXCEPT ![c] = label]
    /\ result' = [result EXCEPT ![c] = NoResult]
    /\ UNCHANGED <<self, fs, dirs, last>>

\* lines 179-180 (FC), 218-219 (WP): if not exists(filename): download_file
grid_exists(c, here, open) ==
    /\ pc[c] = here
    /\ IF ~ exists(frame[c].filename)
       THEN Goto(c, "dl_133")
       ELSE Goto(c, open)
    /\ UNCHANGED <<self, fs, dirs, frame, obs>>

\* lines 182-192 (FC), 221-231 (WP): Raster.open(filename, geometry,
\* resampling), which raises on a file it cannot read, then the recode of the
\* raw value v it read
grid_open(c, here, v, recoded) ==
    /\ pc[c] = here
    /\ obs' = [obs EXCEPT ![c].opened = TRUE,
                          ![c].open_resampling = frame[c].resampling,
                          ![c].open_geometry = frame[c].geometry]
    /\ IF Content(frame[c].filename) = "good"
       THEN Finish(c, [NoResult EXCEPT !.kind = "raster", !.raw = v, !.value = recoded])
       ELSE Finish(c, [NoResult EXCEPT !.kind = "RasterError",
                                       !.path = frame[c].filename])
    /\ UNCHANGED <<self, fs, dirs, frame>>

FC(c, geometry, resampling) ==
    grid_call(c, "FC", FC_URL, FC_filename(self), geometry, resampling, "FC_179")
FC_exists(c) == grid_exists(c, "FC_179", "FC_182")
FC_open(c, v) == grid_open(c, "FC_182", v, FC_recode(v))

WP(c, geometry, resampling) ==
    grid_call(c, "WP", WP_URL, WP_filename(self), geometry, resampling, "WP_218")
WP_exists(c) == grid_exists(c, "WP_218", "WP_221")
WP_open(c, v) == grid_open(c, "WP_221", v, WP_recode(v))

\* ------------------------------------------------------------ specifications

Geometries == {None, "geometry"}
Resamplings == {None, "nearest", "bilinear"}
TransferOutcomes == {"nofile", "good", "corrupt"}
ExitStatuses == {0, 1}

\* one step of caller c, its inputs drawn from the given sets
Step(c, G, R, E, V) ==
    \/ \E g \in G, r \in R : FC(c, g, r)
    \/ \E g \in G, r \in R : WP(c, g, r)
    \/ \E p \in Products : download_file(c, URLOf(p), FilenameOf(self, p))
    \/ FC_exists(c)
    \/ WP_exists(c)
    \/ dl_exists(c)
    \/ dl_makedirs(c)
    \/ \E o \in TransferOutcomes, rc \in E : dl_system(c, o, rc)
    \/ dl_verify(c)
    \/ dl_move(c)
    \/ \E v \in V : FC_open(c, v)
    \/ \E v \in V : WP_open(c, v)

\* single-threaded use: one caller, one call at a time, no download left
\* unfinished by an earlier process
Next == Step(MainCaller, Geometries, Resamplings, ExitStatuses, RawSamples)

Spec == Init /\ [][Next]_vars

\* single-threaded use, after a process that may have died in a download: a
\* file may be there at a temporary path
InitStale ==
    /\ self = SoilGrids(<<"/", "tmp", "wd">>, NonePath, DEFAULT_RESAMPLING)
    /\ InitFiles(self, {FC_filename(self), WP_filename(self),
                        partial_suffix(FC_filename(self)),
                        partial_suffix(WP_filename(self))})
    /\ InitCallers

NextStale == Step(MainCaller, {None}, {None}, ExitStatuses, {100})

SpecStale == InitStale /\ [][NextStale]_vars

\* two callers (threads, or processes sharing source_directory) whose steps
\* interleave
InitConc ==
    /\ self = SoilGrids(<<"/", "tmp", "wd">>, NonePath, DEFAULT_RESAMPLING)
    /\ InitFiles(self, {FC_filename(self), WP_filename(self)})
    /\ InitCallers

NextConc == \E c \in Callers : Step(c, {None}, {None}, {0}, {100})

SpecConc == InitConc /\ [][NextConc]_vars

\* the recode of every raw value: both grids cached and readable
InitRecode ==
    /\ self = SoilGrids(<<"/", "tmp", "wd">>, NonePath, DEFAULT_RESAMPLING)
    /\ fs = [f \in {FC_filename(self), WP_filename(self)} |-> "good"]
    /\ dirs = {self.source_directory}
    /\ InitCallers

NextRecode ==
    \/ \E g \in Geometries : FC(MainCaller, g, None)
    \/ \E g \in Geometries : WP(MainCaller, g, None)
    \/ FC_exists(MainCaller)
    \/ WP_exists(MainCaller)
    \/ \E v \in RawBytes : FC_open(MainCaller, v)
    \/ \E v \in RawBytes : WP_open(MainCaller, v)

SpecRecode == InitRecode /\ [][NextRecode]_vars

\* ------------------------------------------------------------ properties

\* caller c's call has returned or raised
Done(c) == pc[c] = "idle" /\ frame[c].method # "none"

\* caller c is inside download_file, past its existence check
Fetching(c) == pc[c] \in {"dl_139", "dl_143", "dl_148", "dl_151"}

\* the paths the interface documents, written out
FC_basename == "sol_watercontent.33kPa_usda.4b1c_m_250m_b0..0cm_1950..2017_v0.1.tif"
WP_basename == "sol_watercontent.1500kPa_usda.3c2a1a_m_250m_b0..0cm_1950..2017_v0.1.tif"
FinalPath(p) ==
    Append(self.source_directory, IF p = "FC" THEN FC_basename ELSE WP_basename)
TemporaryPath(p) ==
    Append(self.source_directory,
           IF p = "FC" THEN FC_basename \o ".download" ELSE WP_basename \o ".download")

\* the product of caller c's call
Product(c) == IF frame[c].method \in Products
              THEN frame[c].method
              ELSE ProductOf(frame[c].URL)

\* the state of a product's fetch
FetchState(p) ==
    IF exists(FinalPath(p)) THEN "Cached"
    ELSE IF \E c \in Callers : Fetching(c) /\ frame[c].filename = FinalPath(p)
         THEN "Fetching"
         ELSE "NotFetched"

\* ---- C1

C1_HitState ==
    \A c \in Callers :
        (frame[c].method # "none" /\ obs[c].seen # "absent") =>
            /\ obs[c].transfers = 0
            /\ ~ Fetching(c)
            /\ Content(frame[c].filename) = obs[c].seen
            /\ Done(c) => result[c].kind \in {"path", "raster", "RasterError"}
            /\ (Done(c) /\ frame[c].method = "download_file") =>
                   result[c] = [NoResult EXCEPT !.kind = "path",
                                                !.path = FinalPath(Product(c))]

\* C1: in single-threaded use, a call of FC, WP or download_file made while
\* the product's final path exists never invokes the transfer, never reaches
\* the fetching lines of download_file, leaves the file there with the content
\* it had, and (download_file) returns the final path; and no step of any call
\* removes a file that is at a final path.
C1_CacheHitNoTransfer ==
    [][ /\ C1_HitState'
        /\ \A p \in Products : exists(FinalPath(p)) => exists(FinalPath(p))' ]_vars

C1_Witness ==
    \E c \in Callers :
        /\ Done(c)
        /\ frame[c].method = "download_file"
        /\ obs[c].seen = "good"
        /\ result[c].kind = "path"
        /\ last[Product(c)] = "path"

\* ---- C2

\* C2: in single-threaded use, when a call made with the final path absent
\* has ended and its transfer left a file at the temporary path, the final
\* path exists and is source_directory/basename(URL), the call did not fail
\* in download_file, download_file returned that path, and the temporary
\* path does not exist.
C2_FetchedPostState ==
    \A c \in Callers :
        (Done(c) /\ obs[c].seen = "absent" /\ obs[c].out = "file") =>
            /\ frame[c].filename = FinalPath(Product(c))
            /\ exists(FinalPath(Product(c)))
            /\ ~ exists(TemporaryPath(Product(c)))
            /\ result[c].kind \in {"path", "raster", "RasterError"}
            /\ frame[c].method = "download_file" =>
                   result[c] = [NoResult EXCEPT !.kind = "path",
                                                !.path = FinalPath(Product(c))]

C2_Witness ==
    \E c \in Callers :
        /\ Done(c)
        /\ obs[c].seen = "absent"
        /\ obs[c].out = "file"
        /\ frame[c].method = "FC"
        /\ self.source_directory = <<"/", "tmp", "wd", "SoilGrids_download">>
        /\ exists(<<"/", "tmp", "wd", "SoilGrids_download", FC_basename>>)

\* ---- C3

\* C3: in single-threaded use, when a call made with the final path absent
\* has ended and no file was at the temporary path after its transfer, the
\* call raised IOError naming the product's URL, the final path does not
\* exist, and the raster was not opened.
C3_FailedFetch ==
    \A c \in Callers :
        (Done(c) /\ obs[c].seen = "absent" /\ obs[c].out = "nofile") =>
            /\ result[c] = [NoResult EXCEPT !.kind = "IOError",
                                            !.url = URLOf(Product(c))]
            /\ ~ exists(FinalPath(Product(c)))
            /\ ~ obs[c].opened

C3_Witness ==
    \E c \in Callers :
        /\ Done(c)
        /\ frame[c].method = "WP"
        /\ obs[c].seen = "absent"
        /\ obs[c].out = "nofile"
        /\ result[c].kind = "IOError"
        /\ result[c].url = WP_URL

\* ---- C4

\* the recode the interface documents: 255 is missing, 0..100 is v/100,
\* anything else above 100 is 1
ReferenceRecode(v, x) ==
    /\ v = 255 => x.nan
    /\ v \in 0 .. 100 => (~ x.nan /\ x.num * 100 = v * x.den)
    /\ (v > 100 /\ v # 255) => (~ x.nan /\ x.num = x.den)
    /\ ~ x.nan => (x.den > 0 /\ 0 <= x.num /\ x.num <= x.den)

\* C4: every raster FC or WP returns holds, for the raw value v that was
\* read, not-a-number when v = 255, exactly v/100 when v is in 0..100, and
\* exactly 1 when 100 < v < 255; a value that is a number is in [0, 1].
C4_RecodeMatchesReference ==
    \A c \in Callers :
        result[c].kind = "raster" => ReferenceRecode(result[c].raw, result[c].value)

C4_Witness ==
    \E c \in Callers :
        /\ frame[c].method = "WP"
        /\ result[c].kind = "raster"
        /\ result[c].raw = 254
        /\ result[c].value = Num(1)

\* ---- C5

C5_OpenedWithEffective ==
    \A c \in Callers :
        obs[c].opened =>
            obs[c].open_resampling =
                IF frame[c].arg_resampling = None
                THEN self.resampling
                ELSE frame[c].arg_resampling

\* C5: FC and WP open the raster with the resampling argument when one is
\* given and with the instance's resampling when it is omitted, and no step
\* of any call changes the instance's resampling, working_directory or
\* source_directory.
C5_ResamplingOverride ==
    [][ C5_OpenedWithEffective' /\ self' = self ]_vars

C5_Witness ==
    \E c \in Callers :
        /\ Done(c)
        /\ frame[c].method = "FC"
        /\ frame[c].arg_resampling = "nearest"
        /\ self.resampling = "cubic"
        /\ obs[c].opened
        /\ obs[c].open_resampling = "nearest"

\* ---- C6

C6_CallState ==
    \A c \in Callers :
        /\ obs[c].transfers <= 1
        /\ (Done(c) /\ result[c].kind = "IOError") =>
               FetchState(Product(c)) = "NotFetched"
        /\ (obs[c].retry /\ (Done(c) \/ pc[c] \in {"dl_148", "dl_151", "FC_182", "WP_221"})) =>
               obs[c].transfers = 1

C6_Transitions ==
    {<<"NotFetched", "Fetching">>, <<"Fetching", "Cached">>,
     <<"Fetching", "NotFetched">>}

\* C6: in single-threaded use, each product's fetch state changes only from
\* NotFetched to Fetching, from Fetching to Cached and, on a failed fetch,
\* from Fetching back to NotFetched; a call that raised IOError leaves the
\* product NotFetched; the call for the product that follows one that raised
\* IOError invokes the transfer; and no call invokes the transfer more than
\* once.
C6_FetchStateMachine ==
    [][ /\ C6_CallState'
        /\ \A p \in Products :
              \/ FetchState(p)' = FetchState(p)
              \/ <<FetchState(p), FetchState(p)'>> \in C6_Transitions ]_vars

C6_Witness ==
    \E c \in Callers :
        /\ Done(c)
        /\ frame[c].method \in {"FC", "WP"}
        /\ obs[c].retry
        /\ obs[c].transfers = 1
        /\ FetchState(Product(c)) = "Cached"

\* ---- C7

\* C7: in single-threaded use started with no temporary file, whenever a
\* file exists at a product's temporary path a call is inside download_file
\* for that product; when no call is executing no temporary path exists.
C7_PartialOnlyInFlight ==
    \A p \in Products :
        exists(TemporaryPath(p)) =>
            \E c \in Callers : Fetching(c) /\ frame[c].filename = FinalPath(p)

C7_Witness ==
    /\ \A c \in Callers : pc[c] = "idle"
    /\ \E p \in Products : ~ exists(TemporaryPath(p)) /\ exists(FinalPath(p))
    /\ \E c \in Callers : Done(c) /\ obs[c].out = "file" /\ obs[c].seen = "absent"

\* ---- C8

\* C8: in single-threaded use, when a call has ended and a file was at the
\* temporary path after its transfer, whatever the exit status and the
\* content and whether or not the file was there before, download_file did
\* not raise: it returned the final path, the file is at the final path and
\* is what later calls find there.
C8_PresenceIsSuccess ==
    \A c \in Callers :
        (Done(c) /\ obs[c].out = "file") =>
            /\ result[c].kind \notin {"IOError", "FileNotFoundError"}
            /\ exists(FinalPath(Product(c)))
            /\ FetchState(Product(c)) = "Cached"
            /\ frame[c].method = "download_file" =>
                   result[c] = [NoResult EXCEPT !.kind = "path",
                                                !.path = FinalPath(Product(c))]
            /\ frame[c].method # "download_file" => obs[c].opened

C8_Witness ==
    \E c \in Callers :
        /\ Done(c)
        /\ frame[c].method = "download_file"
        /\ obs[c].out = "file"
        /\ ~ obs[c].produced
        /\ obs[c].rc # 0
        /\ Content(FinalPath(Product(c))) = "corrupt"
        /\ result[c].kind = "path"

\* ---- C9

\* C9: nothing serialises two callers: whenever a caller is at a line of
\* download_file, FC or WP, that line's step is enabled whatever the other
\* caller is doing, and two callers fetching the same product use the same
\* temporary path.
C9_NoMutualExclusion ==
    \A c \in Callers :
        /\ pc[c] = "dl_133" => ENABLED dl_exists(c)
        /\ pc[c] = "dl_139" => ENABLED dl_makedirs(c)
        /\ pc[c] = "dl_143" => ENABLED dl_system(c, "good", 0)
        /\ pc[c] = "dl_148" => ENABLED dl_verify(c)
        /\ pc[c] = "dl_151" => ENABLED dl_move(c)
        /\ \A d \in Callers :
              (pc[c] \in {"dl_148", "dl_151"} /\ pc[d] \in {"dl_148", "dl_151"}
                  /\ frame[c].URL = frame[d].URL) =>
                frame[c].partial_filename = frame[d].partial_filename

\* the race: both callers found the final path absent, both have run the
\* transfer into the one temporary path, both are about to rename it
C9_Witness ==
    /\ pc["A"] = "dl_151"
    /\ pc["B"] = "dl_151"
    /\ frame["A"].filename = frame["B"].filename
    /\ frame["A"].partial_filename = TemporaryPath(Product("A"))
    /\ frame["B"].partial_filename = TemporaryPath(Product("B"))
    /\ obs["A"].seen = "absent" /\ obs["B"].seen = "absent"
    /\ obs["A"].transfers = 1 /\ obs["B"].transfers = 1
    /\ ~ exists(frame["A"].filename)

\* ---- C10

\* C10: a call raises the transfer error (IOError) only when its own
\* transfer left no file at the temporary path: with two concurrent callers
\* whose transfers both produce output, neither ends in an error and
\* download_file returns the final path.
C10_RaisesOnlyWithoutOutput ==
    \A c \in Callers :
        (Done(c) /\ obs[c].produced
             /\ \A d \in Callers : obs[d].transfers > 0 => obs[d].produced) =>
            /\ result[c].kind \notin {"IOError", "FileNotFoundError"}
            /\ frame[c].method = "download_file" => result[c].kind = "path"

====
